---- MODULE Spec2Model ----
(***************************************************************************)
(* The linear-combination algebra of the R1CS proof compiler               *)
(* (src/src/r1cs/linear_combination.rs): Variables with their derived      *)
(* order, term lists, the lifting conversions, the arithmetic operator     *)
(* implementations and LinearCombination::simplify.                        *)
(*                                                                         *)
(* A state holds the operands of one expression, the operator              *)
(* implementation that was applied to them and the Linear Combination it   *)
(* returned.  Every operator is a pure function of its operands; the       *)
(* actions apply exactly one implementation each, selected as Rust's trait *)
(* resolution selects it from the operand types.                           *)
(***************************************************************************)
EXTENDS Integers, Sequences, FiniteSets

\* ------------------------------------------------------------------ bounds
\* Longest term list given to an operator (for a binary operator: the two
\* operands together).
MaxLen == 2
\* Largest index of a Committed variable: the circuit the operands come from
\* has the committed inputs 0..MaxIdx and one multiplication gate, 0.
MaxIdx == 1
\* The scalars are the integers modulo FieldOrder, standing for
\* curve25519_dalek's Scalar (integers modulo the group order).
FieldOrder == 3

\* ------------------------------------------------------------------ scalars
Scalar == 0..(FieldOrder - 1)

ScalarZero == 0

ScalarOne == 1 % FieldOrder

SAdd(x, y) == (x + y) % FieldOrder

SNeg(x) == (FieldOrder - x) % FieldOrder

SMul(x, y) == (x * y) % FieldOrder

\* ---------------------------------------------------------------- variables
\* enum Variable: four indexed variants and the index-free One().  One()
\* carries idx 0 so that all variables are records of one shape.
MultiplierKinds == {"MultiplierLeft", "MultiplierRight", "MultiplierOutput"}

Var(k, i) == [kind |-> k, idx |-> i]

One == Var("One", 0)

Variable ==
    {Var("Committed", i) : i \in 0..MaxIdx}
        \cup {Var(k, 0) : k \in MultiplierKinds}
        \cup {One}

\* Variant: One() declared first instead of last.
VariantIndexSwapped(k) ==
    CASE k = "One" -> 0
      [] k = "Committed" -> 1
      [] k = "MultiplierLeft" -> 2
      [] k = "MultiplierRight" -> 3
      [] k = "MultiplierOutput" -> 4

\* Position of a variant in the enum declaration; #[derive(Ord)] compares
\* by it first.
VariantIndex(k) ==
    CASE k = "Committed" -> 0
      [] k = "MultiplierLeft" -> 1
      [] k = "MultiplierRight" -> 2
      [] k = "MultiplierOutput" -> 3
      [] k = "One" -> 4

\* #[derive(Ord, PartialOrd)]: variant position, then the payload (usize).
VarLess(a, b) ==
    \/ VariantIndex(a.kind) < VariantIndex(b.kind)
    \/ /\ VariantIndex(a.kind) = VariantIndex(b.kind)
       /\ a.idx < b.idx

\* -------------------------------------------------------------- term lists
\* A term is the pair <<variable, coefficient>>; LinearCombination.terms is
\* a Vec of terms.
Term == Variable \X Scalar

\* Vec::extend: push the items of the iterator one by one.
RECURSIVE Extend(_, _)
Extend(vec, items) ==
    IF items = <<>> THEN vec
    ELSE Extend(Append(vec, Head(items)), Tail(items))

\* iter().map(f).collect() over a term list, f acting on the coefficient.
NegTerm(t) == <<t[1], SNeg(t[2])>>

ScaleTerm(t, s) == <<t[1], SMul(t[2], s)>>

\* impl From<Variable> for LinearCombination
FromVariable(v) == << <<v, ScalarOne>> >>

\* Variant: a zero scalar lifts to no term at all.
FromScalarDropZero(s) == IF s = ScalarZero THEN <<>> ELSE << <<One, s>> >>

\* impl<S: Into<Scalar>> From<S> for LinearCombination
FromScalar(s) == << <<One, s>> >>

\* Variant: the zero polynomial written as the constant term 0.
DefaultZeroTerm == << <<One, ScalarZero>> >>

\* impl Default for LinearCombination
Default == <<>>

\* impl FromIterator<(Variable, Scalar)> / <&(Variable, Scalar)>: the items
\* in iteration order.
FromIter(items) == Extend(<<>>, items)

\* ----------------------------------------------------------------- simplify
\* Variant: an existing entry is overwritten (`=` for `+=`).
RECURSIVE EntryAddAssignOverwrite(_, _, _)
EntryAddAssignOverwrite(vars, var, val) ==
    IF vars = <<>> THEN << <<var, SAdd(ScalarZero, val)>> >>
    ELSE IF Head(vars)[1] = var
         THEN << <<var, val>> >> \o Tail(vars)
    ELSE IF VarLess(var, Head(vars)[1])
         THEN << <<var, SAdd(ScalarZero, val)>> >> \o vars
    ELSE <<Head(vars)>> \o EntryAddAssignOverwrite(Tail(vars), var, val)

\* Variant: a map that keeps insertion order (a new key goes last).
RECURSIVE EntryAddAssignUnordered(_, _, _)
EntryAddAssignUnordered(vars, var, val) ==
    IF vars = <<>> THEN << <<var, SAdd(ScalarZero, val)>> >>
    ELSE IF Head(vars)[1] = var
         THEN << <<var, SAdd(Head(vars)[2], val)>> >> \o Tail(vars)
    ELSE <<Head(vars)>> \o EntryAddAssignUnordered(Tail(vars), var, val)

\* `*vars.entry(var).or_insert_with(Scalar::zero) += val` on a
\* BTreeMap<Variable, Scalar>.  The map is its entries in key order (the
\* order BTreeMap iterates in): an absent key is inserted at its place in
\* the order with Scalar::zero() and then val is added to the entry.
RECURSIVE EntryAddAssign(_, _, _)
EntryAddAssign(vars, var, val) ==
    IF vars = <<>> THEN << <<var, SAdd(ScalarZero, val)>> >>
    ELSE IF Head(vars)[1] = var
         THEN << <<var, SAdd(Head(vars)[2], val)>> >> \o Tail(vars)
    ELSE IF VarLess(var, Head(vars)[1])
         THEN << <<var, SAdd(ScalarZero, val)>> >> \o vars
    ELSE <<Head(vars)>> \o EntryAddAssign(Tail(vars), var, val)

\* for (var, val) in terms { *vars.entry(var)... += val; }
RECURSIVE CollectVars(_, _)
CollectVars(vars, terms) ==
    IF terms = <<>> THEN vars
    ELSE CollectVars(EntryAddAssign(vars, Head(terms)[1], Head(terms)[2]), Tail(terms))

\* LinearCombination::get_terms
GetTerms(lc) == lc

\* Variant: entries whose sum is zero are dropped.
SimplifyPruning(lc) ==
    LET vars == CollectVars(<<>>, GetTerms(lc))
        new_lc_terms == Extend(<<>>, vars)
    IN  FromIter(SelectSeq(new_lc_terms, LAMBDA t : t[2] # ScalarZero))

\* LinearCombination::simplify: fill the map, push its entries in key
\* order onto new_lc_terms, collect the result.
Simplify(lc) ==
    LET vars == CollectVars(<<>>, GetTerms(lc))
        new_lc_terms == Extend(<<>>, vars)
    IN  FromIter(new_lc_terms)

\* --------------------------------------- arithmetic on linear combinations
\* Each operator takes term lists; a right operand of another type has been
\* converted by Into<LinearCombination> (IntoLC below) by the caller.

\* rhs with every coefficient negated: terms.iter().map(|(var, coeff)| (*var, -coeff))
NegatedTerms(terms) == [i \in 1..Len(terms) |-> NegTerm(terms[i])]

\* Variant: a right-hand term is folded into an existing term of the same
\* variable instead of being appended (eager merging).
RECURSIVE AddLCMerging(_, _)
AddLCMerging(self, rhs) ==
    IF rhs = <<>> THEN self
    ELSE LET t == Head(rhs)
             hit == {i \in 1..Len(self) : self[i][1] = t[1]}
         IN  IF hit = {}
             THEN AddLCMerging(Append(self, t), Tail(rhs))
             ELSE LET i == CHOOSE j \in hit : \A k \in hit : j <= k
                  IN  AddLCMerging([self EXCEPT ![i] = <<t[1], SAdd(self[i][2], t[2])>>],
                                   Tail(rhs))

\* impl Add<L> for LinearCombination
AddLC(self, rhs) == Extend(self, rhs)

\* impl Sub<L> for LinearCombination
SubLC(self, rhs) == Extend(self, NegatedTerms(rhs))

\* impl Mul<LinearCombination> for Scalar: (var, scalar * self) per term
MulScalarLC(self, other) == [i \in 1..Len(other) |-> ScaleTerm(other[i], self)]

\* Variant: only the first term is negated.
NegLCFirstOnly(self) ==
    [i \in 1..Len(self) |-> IF i = 1 THEN NegTerm(self[i]) ELSE self[i]]

\* impl Neg for LinearCombination: *s = -*s for every term
NegLC(self) == [i \in 1..Len(self) |-> NegTerm(self[i])]

\* Variant: the constant term is left unscaled.
MulLCSkipConstant(self, other) ==
    [i \in 1..Len(self) |-> IF self[i][1] = One THEN self[i] ELSE ScaleTerm(self[i], other)]

\* impl Mul<S> for LinearCombination: *s *= other for every term
MulLC(self, other) == [i \in 1..Len(self) |-> ScaleTerm(self[i], other)]

\* ------------------------------------------------- arithmetic on variables
\* impl Neg for Variable
NegVariable(self) == NegLC(FromVariable(self))

\* impl Add<L> for Variable
AddVariable(self, other) == AddLC(FromVariable(self), other)

\* impl Sub<L> for Variable
SubVariable(self, other) == SubLC(FromVariable(self), other)

\* impl Mul<S> for Variable
MulVariable(self, other) == << <<self, other>> >>

\* ------------------------------------ arithmetic on scalars with variables
\* impl Add<Variable> for Scalar
ScalarAddVariable(self, other) == << <<One, self>>, <<other, ScalarOne>> >>

\* Variant: the variable enters with coefficient 1 instead of -1.
ScalarSubVariablePlus(self, other) == << <<One, self>>, <<other, ScalarOne>> >>

\* impl Sub<Variable> for Scalar
ScalarSubVariable(self, other) == << <<One, self>>, <<other, SNeg(ScalarOne)>> >>

\* impl Mul<Variable> for Scalar
ScalarMulVariable(self, other) == << <<other, self>> >>

\* ---------------------------------------------------------------- operands
\* An operand of an expression is a LinearCombination, a Variable or a
\* Scalar; NoOperand marks an absent operand.  All four are records of one
\* shape, the fields an operand kind does not use holding a fixed filler.
NoOperand == [kind |-> "None", terms |-> <<>>, var |-> One, val |-> ScalarZero]

LCOperand(t) == [kind |-> "LC", terms |-> t, var |-> One, val |-> ScalarZero]

VarOperand(v) == [kind |-> "Variable", terms |-> <<>>, var |-> v, val |-> ScalarZero]

ScalarOperand(s) == [kind |-> "Scalar", terms |-> <<>>, var |-> One, val |-> s]

\* x is an operand of size n, the size of an operand being the number of
\* terms it has as a LinearCombination.
OperandOfSize(x, n) ==
    \/ \E t \in [1..n -> Term] : x = LCOperand(t)
    \/ n = 1 /\ \E v \in Variable : x = VarOperand(v)
    \/ n = 1 /\ \E s \in Scalar : x = ScalarOperand(s)

\* Into<LinearCombination>: the identity on a LinearCombination, the From
\* conversions on a Variable and on a Scalar.
IntoLC(x) ==
    CASE x.kind = "LC" -> x.terms
      [] x.kind = "Variable" -> FromVariable(x.var)
      [] x.kind = "Scalar" -> FromScalar(x.val)

\* ------------------------------------------------------------ state machine
VARIABLES lhs, rhs, op, out

vars == <<lhs, rhs, op, out>>

Done(name, result) ==
    /\ op' = name
    /\ out' = result
    /\ UNCHANGED <<lhs, rhs>>

\* The operand kinds with a conversion Into<LinearCombination>.
IntoLCKinds == {"LC", "Variable", "Scalar"}

\* The implementation declared for operator o on a left operand of kind l
\* and a right operand of kind r (r = "None" for a function of one
\* operand), "none" when the module declares no implementation for them.
Resolve(o, l, r) ==
    CASE o = "default" /\ l = "None" /\ r = "None" -> "default"
      [] o = "from" /\ l = "Variable" /\ r = "None" -> "from_variable"
      [] o = "from" /\ l = "Scalar" /\ r = "None" -> "from_scalar"
      [] o = "simplify" /\ l = "LC" /\ r = "None" -> "simplify"
      [] o = "neg" /\ l = "Variable" /\ r = "None" -> "neg_variable"
      [] o = "neg" /\ l = "LC" /\ r = "None" -> "neg_lc"
      [] o = "add" /\ l = "Variable" /\ r \in IntoLCKinds -> "add_variable"
      [] o = "add" /\ l = "Scalar" /\ r = "Variable" -> "scalar_add_variable"
      [] o = "add" /\ l = "LC" /\ r \in IntoLCKinds -> "add_lc"
      [] o = "sub" /\ l = "Variable" /\ r \in IntoLCKinds -> "sub_variable"
      [] o = "sub" /\ l = "Scalar" /\ r = "Variable" -> "scalar_sub_variable"
      [] o = "sub" /\ l = "LC" /\ r \in IntoLCKinds -> "sub_lc"
      [] o = "mul" /\ l = "Variable" /\ r = "Scalar" -> "mul_variable"
      [] o = "mul" /\ l = "Scalar" /\ r = "Variable" -> "scalar_mul_variable"
      [] o = "mul" /\ l = "Scalar" /\ r = "LC" -> "scalar_mul_lc"
      [] o = "mul" /\ l = "LC" /\ r = "Scalar" -> "mul_lc"
      [] OTHER -> "none"

\* The expression has not been evaluated yet and operator o on its operands
\* is the implementation impl.
Resolves(o, impl) == op = "init" /\ Resolve(o, lhs.kind, rhs.kind) = impl

Init ==
    /\ op = "init"
    /\ out = <<>>
    /\ \/ lhs = NoOperand /\ rhs = NoOperand
       \/ \E n \in 0..MaxLen :
            OperandOfSize(lhs, n) /\ rhs = NoOperand
       \/ \E n \in 0..MaxLen, m \in 0..MaxLen :
            n + m <= MaxLen /\ OperandOfSize(lhs, n) /\ OperandOfSize(rhs, m)

DefaultOp == Resolves("default", "default") /\ Done("default", Default)

FromVariableOp ==
    Resolves("from", "from_variable") /\ Done("from_variable", FromVariable(lhs.var))

FromScalarOp ==
    Resolves("from", "from_scalar") /\ Done("from_scalar", FromScalar(lhs.val))

NegVariableOp ==
    Resolves("neg", "neg_variable") /\ Done("neg_variable", NegVariable(lhs.var))

AddVariableOp ==
    Resolves("add", "add_variable")
        /\ Done("add_variable", AddVariable(lhs.var, IntoLC(rhs)))

SubVariableOp ==
    Resolves("sub", "sub_variable")
        /\ Done("sub_variable", SubVariable(lhs.var, IntoLC(rhs)))

MulVariableOp ==
    Resolves("mul", "mul_variable")
        /\ Done("mul_variable", MulVariable(lhs.var, rhs.val))

ScalarAddVariableOp ==
    Resolves("add", "scalar_add_variable")
        /\ Done("scalar_add_variable", ScalarAddVariable(lhs.val, rhs.var))

ScalarSubVariableOp ==
    Resolves("sub", "scalar_sub_variable")
        /\ Done("scalar_sub_variable", ScalarSubVariable(lhs.val, rhs.var))

ScalarMulVariableOp ==
    Resolves("mul", "scalar_mul_variable")
        /\ Done("scalar_mul_variable", ScalarMulVariable(lhs.val, rhs.var))

SimplifyOp == Resolves("simplify", "simplify") /\ Done("simplify", Simplify(lhs.terms))

AddLCOp == Resolves("add", "add_lc") /\ Done("add_lc", AddLC(lhs.terms, IntoLC(rhs)))

SubLCOp == Resolves("sub", "sub_lc") /\ Done("sub_lc", SubLC(lhs.terms, IntoLC(rhs)))

MulScalarLCOp ==
    Resolves("mul", "scalar_mul_lc")
        /\ Done("scalar_mul_lc", MulScalarLC(lhs.val, rhs.terms))

NegLCOp == Resolves("neg", "neg_lc") /\ Done("neg_lc", NegLC(lhs.terms))

MulLCOp == Resolves("mul", "mul_lc") /\ Done("mul_lc", MulLC(lhs.terms, rhs.val))

Next ==
    \/ DefaultOp
    \/ FromVariableOp
    \/ FromScalarOp
    \/ NegVariableOp
    \/ AddVariableOp
    \/ SubVariableOp
    \/ MulVariableOp
    \/ ScalarAddVariableOp
    \/ ScalarSubVariableOp
    \/ ScalarMulVariableOp
    \/ SimplifyOp
    \/ AddLCOp
    \/ SubLCOp
    \/ MulScalarLCOp
    \/ NegLCOp
    \/ MulLCOp

Spec == Init /\ [][Next]_vars

\* ------------------------------------------------- vocabulary of the claims
\* The variables of a term list.
VarsOf(terms) == {terms[i][1] : i \in 1..Len(terms)}

\* How many terms of the list carry variable v.
Occurrences(terms, v) == Cardinality({i \in 1..Len(terms) : terms[i][1] = v})

\* The field sum of the coefficients of the terms whose variable is v.
RECURSIVE CoeffSum(_, _)
CoeffSum(terms, v) ==
    IF terms = <<>> THEN 0
    ELSE ((IF Head(terms)[1] = v THEN Head(terms)[2] ELSE 0) + CoeffSum(Tail(terms), v))
             % FieldOrder

\* The stated order of variables: kinds in the order given, then the index.
KindPosition(k) ==
    CHOOSE n \in 1..5 :
        <<"Committed", "MultiplierLeft", "MultiplierRight", "MultiplierOutput", "One">>[n] = k

StatedBefore(a, b) ==
    \/ KindPosition(a.kind) < KindPosition(b.kind)
    \/ a.kind = b.kind /\ a.idx < b.idx

\* x and y are field negations of each other.
AreNegations(x, y) == (x + y) % FieldOrder = 0

\* All rearrangements of a term list.
PermutationsOf(terms) ==
    LET n == Len(terms)
        bij == {f \in [1..n -> 1..n] : \A i, j \in 1..n : i # j => f[i] # f[j]}
    IN  {[i \in 1..n |-> terms[f[i]]] : f \in bij}

\* The operands as term lists (a right operand after Into<LinearCombination>).
A == lhs.terms

B == IntoLC(rhs)

\* The value of a term list under an assignment of scalars to variables,
\* One being 1.
ValueOfVar(v, asg) == IF v = One THEN 1 % FieldOrder ELSE asg[v]

RECURSIVE Eval(_, _)
Eval(terms, asg) ==
    IF terms = <<>> THEN 0
    ELSE (Head(terms)[2] * ValueOfVar(Head(terms)[1], asg) + Eval(Tail(terms), asg))
             % FieldOrder

OperandValue(x, asg) ==
    CASE x.kind = "LC" -> Eval(x.terms, asg)
      [] x.kind = "Variable" -> ValueOfVar(x.var, asg)
      [] x.kind = "Scalar" -> x.val

\* Assignments to the variables that occur in the state; a value does not
\* depend on the variables that do not occur.
Assignments ==
    [(VarsOf(lhs.terms) \cup VarsOf(rhs.terms) \cup VarsOf(out) \cup {lhs.var, rhs.var})
        \ {One} -> Scalar]

\* -------------------------------------------------------------------- claims

\* C1: simplify(lc) contains each Variable at most once, and for every
\* Variable v that occurs in lc its coefficient in simplify(lc) is the field
\* sum of the coefficients of all terms of lc whose variable is v.
C1_SimplifySumsPerVariable ==
    op = "simplify" =>
        /\ \A v \in VarsOf(out) : Occurrences(out, v) = 1
        /\ \A v \in VarsOf(A) :
               \E i \in 1..Len(out) : out[i] = <<v, CoeffSum(A, v)>>

\* A list with a repeated variable, both coefficients non-zero, was merged.
C1_Witness ==
    /\ op = "simplify"
    /\ \E i, j \in 1..Len(A) :
           i < j /\ A[i][1] = A[j][1] /\ A[i][2] # 0 /\ A[j][2] # 0
    /\ Len(out) < Len(A)

\* C2: the terms of simplify(lc) are in strictly ascending Variable order:
\* Committed < MultiplierLeft < MultiplierRight < MultiplierOutput < One,
\* variables of one kind by ascending index.
C2_SimplifySorted ==
    op = "simplify" =>
        \A i \in 1..(Len(out) - 1) : StatedBefore(out[i][1], out[i + 1][1])

\* Two variables of one kind, given with the larger index first, were put
\* in ascending index order.
C2_Witness ==
    /\ op = "simplify"
    /\ Len(A) = 2 /\ Len(out) = 2
    /\ A[1][1].kind = A[2][1].kind
    /\ A[1][1].idx > A[2][1].idx
    /\ out[1][1] = A[2][1] /\ out[2][1] = A[1][1]

\* C3: simplify never prunes a term whose summed coefficient is zero: the
\* Variables of simplify(lc) are exactly the Variables of lc, and
\* simplify(a - a) has one term per Variable of a, each coefficient zero.
C3_SimplifyKeepsZeroTerms ==
    op = "simplify" =>
        /\ VarsOf(out) = VarsOf(A)
        /\ LET d == Simplify(SubLC(A, A))
           IN  /\ VarsOf(d) = VarsOf(A)
               /\ Len(d) = Cardinality(VarsOf(A))
               /\ \A i \in 1..Len(d) : d[i][2] = 0

\* Non-zero coefficients of one variable cancelled and the term was kept.
C3_Witness ==
    /\ op = "simplify"
    /\ Len(A) > 0
    /\ \A i \in 1..Len(A) : A[i][2] # 0
    /\ \E i \in 1..Len(out) : out[i][2] = 0

\* C4: simplify is independent of insertion order: every rearrangement of
\* the term list simplifies to the same list, and simplify(a + b) equals
\* simplify(b + a).
C4_SimplifyOrderIndependent ==
    /\ op = "simplify" => \A p \in PermutationsOf(A) : Simplify(p) = out
    /\ op \in {"add_lc", "add_variable"} =>
           Simplify(out) = Simplify(AddLC(B, IntoLC(lhs)))

\* Two different variables given in descending order.
C4_Witness ==
    /\ op = "simplify"
    /\ Len(A) = 2
    /\ A[1][1] # A[2][1]
    /\ out # A

\* C5: lifting produces exactly one term: (v, 1) for a Variable v and
\* (One, s) for a scalar s, zero included.
C5_LiftIsOneTerm ==
    /\ op = "from_variable" => out = << <<lhs.var, 1 % FieldOrder>> >>
    /\ op = "from_scalar" => out = << <<One, lhs.val>> >>

\* The scalar zero was lifted.
C5_Witness ==
    /\ op = "from_scalar"
    /\ lhs.val = 0
    /\ Len(out) = 1

\* C6, the part about values and shortcuts: the result of an addition,
\* subtraction or negation has, under every assignment, the sum, difference
\* or negation of the operands' values, and the Scalar-with-Variable
\* shortcuts give the term list of lifting the operands and applying the
\* Linear Combination operator.
C6_ValuesAndShortcuts ==
    /\ op \in {"add_lc", "add_variable", "scalar_add_variable"} =>
           \A asg \in Assignments :
               Eval(out, asg)
                   = (OperandValue(lhs, asg) + OperandValue(rhs, asg)) % FieldOrder
    /\ op \in {"sub_lc", "sub_variable", "scalar_sub_variable"} =>
           \A asg \in Assignments :
               (Eval(out, asg) + OperandValue(rhs, asg)) % FieldOrder
                   = OperandValue(lhs, asg)
    /\ op \in {"neg_lc", "neg_variable"} =>
           \A asg \in Assignments :
               (Eval(out, asg) + OperandValue(lhs, asg)) % FieldOrder = 0
    /\ op = "scalar_add_variable" =>
           out = AddLC(FromScalar(lhs.val), FromVariable(rhs.var))
    /\ op = "scalar_sub_variable" =>
           out = SubLC(FromScalar(lhs.val), FromVariable(rhs.var))
    /\ op = "scalar_mul_variable" =>
           out = MulScalarLC(lhs.val, FromVariable(rhs.var))
    /\ op = "mul_variable" =>
           out = MulLC(FromVariable(lhs.var), rhs.val)

\* Operator o has an implementation for the operands of the state.
Available(o) == Resolve(o, lhs.kind, rhs.kind) # "none"

\* The expression has two operands, not both scalars (the sum of two
\* scalars is curve25519_dalek's own arithmetic).
TwoOperands == lhs.kind # "None" /\ rhs.kind # "None" /\ <<lhs.kind, rhs.kind>> # <<"Scalar", "Scalar">>

\* The expression has the one operand a negation takes, a Linear Combination
\* or a Variable (the negation of a scalar is curve25519_dalek's own).
OneOperand == rhs.kind = "None" /\ lhs.kind \in {"LC", "Variable"}

\* C6 as stated: addition, subtraction and negation are available for
\* Linear Combinations, Variables and scalars in any combination of left
\* and right operand kinds, with the values and shortcuts above.
C6_Original ==
    /\ C6_ValuesAndShortcuts
    /\ TwoOperands => Available("add") /\ Available("sub")
    /\ OneOperand => Available("neg")

\* C6 as amended: addition and subtraction are available for every
\* combination of operand kinds except a scalar on the left with a Linear
\* Combination on the right (a scalar on the left takes only a Variable on
\* the right); negation is available for Linear Combinations and Variables;
\* values and shortcuts as stated.
C6_Amended ==
    /\ C6_ValuesAndShortcuts
    /\ (TwoOperands /\ <<lhs.kind, rhs.kind>> # <<"Scalar", "LC">>) =>
           Available("add") /\ Available("sub")
    /\ (TwoOperands /\ <<lhs.kind, rhs.kind>> = <<"Scalar", "LC">>) =>
           ~Available("add") /\ ~Available("sub")
    /\ OneOperand => Available("neg")

\* A scalar other than 0 minus a variable other than One.
C6_Witness ==
    /\ op = "scalar_sub_variable"
    /\ lhs.val # 0
    /\ rhs.var # One
    /\ Len(out) = 2

\* C7: -lc has the length and the Variables of lc, position by position,
\* each coefficient the field negation of lc's; -(a + b) = (-a) + (-b),
\* a - b = a + (-b) and -(-lc) = lc, term for term.
C7_NegationDistributes ==
    /\ op = "neg_lc" =>
           /\ Len(out) = Len(A)
           /\ \A i \in 1..Len(A) :
                  out[i][1] = A[i][1] /\ AreNegations(out[i][2], A[i][2])
           /\ NegLC(out) = A
    /\ op = "add_lc" => NegLC(out) = AddLC(NegLC(A), NegLC(B))
    /\ op = "sub_lc" => out = AddLC(A, NegLC(B))

\* A two-term list with non-zero coefficients was negated.
C7_Witness ==
    /\ op = "neg_lc"
    /\ Len(A) = 2
    /\ A[1][2] # 0 /\ A[2][2] # 0
    /\ out # A

\* C8: (a + b) * s = (a * s) + (b * s) term for term, each coefficient the
\* original times s with Variables and positions unchanged, and s * lc is
\* the term list of lc * s.
C8_ScalarMulDistributes ==
    /\ op = "add_lc" =>
           \A s \in Scalar :
               /\ MulLC(out, s) = AddLC(MulLC(A, s), MulLC(B, s))
               /\ Len(MulLC(out, s)) = Len(out)
               /\ \A i \in 1..Len(out) :
                      MulLC(out, s)[i] = <<out[i][1], (out[i][2] * s) % FieldOrder>>
               /\ MulScalarLC(s, out) = MulLC(out, s)
    /\ op = "mul_lc" =>
           /\ Len(out) = Len(A)
           /\ \A i \in 1..Len(A) :
                  out[i] = <<A[i][1], (A[i][2] * rhs.val) % FieldOrder>>
           /\ MulScalarLC(rhs.val, A) = out
    /\ op = "scalar_mul_lc" =>
           /\ out = MulLC(rhs.terms, lhs.val)
           /\ \A i \in 1..Len(out) :
                  out[i] = <<rhs.terms[i][1], (rhs.terms[i][2] * lhs.val) % FieldOrder>>

\* A constant term and another term were added, and the sum is scaled by a
\* scalar other than 0 and 1.
C8_Witness ==
    /\ op = "add_lc"
    /\ Len(A) = 1 /\ Len(B) = 1
    /\ A[1][1] = One /\ A[1][2] # 0
    /\ B[1][2] # 0
    /\ \E s \in Scalar : s > 1 /\ MulLC(out, s) # out

\* C9: a + b is the terms of a followed by the terms of b unchanged, a - b
\* the terms of a followed by the terms of b with each coefficient negated;
\* the length is len(a) + len(b) also when variables are shared or
\* coefficients cancel.
C9_AddSubConcatenate ==
    /\ op = "add_lc" =>
           /\ Len(out) = Len(A) + Len(B)
           /\ \A i \in 1..Len(A) : out[i] = A[i]
           /\ \A j \in 1..Len(B) : out[Len(A) + j] = B[j]
    /\ op = "sub_lc" =>
           /\ Len(out) = Len(A) + Len(B)
           /\ \A i \in 1..Len(A) : out[i] = A[i]
           /\ \A j \in 1..Len(B) :
                  /\ out[Len(A) + j][1] = B[j][1]
                  /\ AreNegations(out[Len(A) + j][2], B[j][2])

\* Two terms of one variable whose coefficients cancel were added.
C9_Witness ==
    /\ op = "add_lc"
    /\ Len(A) = 1 /\ Len(B) = 1
    /\ A[1][1] = B[1][1]
    /\ A[1][2] # 0
    /\ AreNegations(A[1][2], B[1][2])
    /\ Len(out) = 2

\* C10: the empty Linear Combination (LinearCombination::default(), zero
\* terms) is accepted and produced by every operation: its simplification,
\* negation and scalar multiples are empty, empty + a and a + empty are a,
\* and a - empty is a.
C10_EmptyEverywhere ==
    /\ op = "default" =>
           /\ Len(out) = 0
           /\ Simplify(out) = <<>>
           /\ NegLC(out) = <<>>
           /\ \A s \in Scalar : MulLC(out, s) = <<>> /\ MulScalarLC(s, out) = <<>>
    /\ (op \in {"simplify", "neg_lc"} /\ A = <<>>) => out = <<>>
    /\ (op = "mul_lc" /\ A = <<>>) => out = <<>>
    /\ (op = "scalar_mul_lc" /\ rhs.terms = <<>>) => out = <<>>
    /\ (op = "add_lc" /\ A = <<>>) => out = B
    /\ (op \in {"add_lc", "sub_lc"} /\ B = <<>>) => out = A

\* The empty Linear Combination plus a non-empty one.
C10_Witness ==
    /\ op = "add_lc"
    /\ A = <<>>
    /\ rhs.kind = "LC"
    /\ Len(out) > 0

====
